---- MODULE Spec2Model ----
(***************************************************************************)
(* Model of telebot's update pollers (poller.go): LongPoller.Poll,         *)
(* MiddlewarePoller.Poll and the AllowedUpdates slice type.                *)
(***************************************************************************)
EXTENDS Integers, Sequences, FiniteSets, TLC

\* ---- bounds ----
\* largest update id the source ever returns
MaxID == 3
\* LongPoller.Limit: largest batch one getUpdates call returns
MaxLimit == 3
\* largest configured MiddlewarePoller.Capacity
MaxCapacity == 2
\* most AllowedUpdates values the program holds at once
MaxHeld == 4
\* most names passed to one Add call
MaxNames == 2
\* longest literal collection String is applied to
MaxLen == 3

VARIABLES
    wrapped,                \* TRUE: MiddlewarePoller wraps the LongPoller; FALSE: LongPoller polled directly
    filterKind,             \* which predicate MiddlewarePoller.Filter is
    Capacity,               \* MiddlewarePoller.Capacity
    stop,                   \* the caller's stop channel is closed
    shouldWrireNextUpdate,  \* b.shouldWrireNextUpdate
    LastUpdateID,           \* LongPoller.LastUpdateID
    offset,                 \* first argument of the getUpdates call in flight / last issued
    updates,                \* batch returned by the last successful getUpdates
    idx,                    \* position of the range loop in updates
    route,                  \* channel chosen for the update being sent
    lpc,                    \* position of LongPoller.Poll
    mpc,                    \* position of MiddlewarePoller.Poll
    upd,                    \* update taken from middle by MiddlewarePoller.Poll
    middle,                 \* buffered relay channel
    stopPoller,             \* stopPoller is closed
    stopConfirm,            \* stopConfirm is closed
    fetched,                \* history: concatenation of the batches getUpdates returned
    lastBatch,              \* history: last non-empty batch returned
    dispatched,             \* history: per dispatched update, value of the flag when it was dispatched
    lpSent,                 \* history: sends completed by LongPoller.Poll, with the channel
    destOut,                \* history: ids received on the caller's dest
    nextOut,                \* history: ids received on b.nextUpdate
    heap,                   \* backing arrays of AllowedUpdates slices
    held,                   \* AllowedUpdates values the program holds
    lastAdd,                \* history: receiver and arguments of the last Add call
    err,                    \* the last getUpdates call returned an error
    debugCalls,             \* history: b.debug calls since the last getUpdates call was issued
    callsAfterStop,         \* history: getUpdates calls started after LongPoller.Poll's stop was closed
    rendered,               \* text returned by the String call (<<>>: not called yet)
    consumed,               \* history: updates MiddlewarePoller.Poll took from middle, with Filter's verdict
    nested,                 \* TRUE: a second MiddlewarePoller wraps the MiddlewarePoller
    oFilterKind,            \* outer MiddlewarePoller: which predicate its Filter is
    oCapacity,              \* outer MiddlewarePoller: Capacity
    opc,                    \* outer MiddlewarePoller: position of Poll
    oUpd,                   \* outer MiddlewarePoller: upd
    oMiddle,                \* outer MiddlewarePoller: middle
    oStopPoller,            \* outer MiddlewarePoller: stopPoller is closed
    oStopConfirm            \* outer MiddlewarePoller: stopConfirm is closed

pollerVars == <<wrapped, filterKind, Capacity, stop, shouldWrireNextUpdate, LastUpdateID,
                offset, updates, idx, route, lpc, mpc, upd, middle, stopPoller,
                stopConfirm, fetched, lastBatch, dispatched, lpSent, destOut, nextOut,
                err, debugCalls, callsAfterStop, consumed,
                nested, oFilterKind, oCapacity, opc, oUpd, oMiddle, oStopPoller, oStopConfirm>>
outerVars == <<nested, oFilterKind, oCapacity, opc, oUpd, oMiddle, oStopPoller, oStopConfirm>>
auVars == <<heap, held, lastAdd, rendered>>
vars == <<wrapped, filterKind, Capacity, stop, shouldWrireNextUpdate, LastUpdateID,
          offset, updates, idx, route, lpc, mpc, upd, middle, stopPoller,
          stopConfirm, fetched, lastBatch, dispatched, lpSent, destOut, nextOut,
          heap, held, lastAdd, rendered, err, debugCalls, callsAfterStop, consumed,
          nested, oFilterKind, oCapacity, opc, oUpd, oMiddle, oStopPoller, oStopConfirm>>

FilterKinds == {"all", "none", "odd"}

\* ---- helpers ----
RECURSIVE SortedSeq(_)
SortedSeq(S) ==
    IF S = {} THEN <<>>
    ELSE LET m == CHOOSE x \in S : \A y \in S : x <= y
         IN  <<m>> \o SortedSeq(S \ {m})

RECURSIVE SeqMax(_)
SeqMax(s) ==
    IF Len(s) = 1 THEN s[1]
    ELSE LET r == SeqMax(Tail(s)) IN IF s[1] > r THEN s[1] ELSE r

IsPrefix(s, t) == Len(s) <= Len(t) /\ SubSeq(t, 1, Len(s)) = s
IsSuffix(s, t) == Len(s) <= Len(t) /\ SubSeq(t, Len(t) - Len(s) + 1, Len(t)) = s

\* b.getUpdates(offset, limit, ...): the batches the source may return:
\* ids not below offset, ascending, at most limit of them
getUpdates(off, limit) ==
    { SortedSeq(S) : S \in { T \in SUBSET (off..MaxID) : Cardinality(T) <= limit } }

\* p.Filter(&upd)
Filter(u) ==
    CASE filterKind = "all"  -> TRUE
      [] filterKind = "none" -> FALSE
      [] filterKind = "odd"  -> u % 2 = 1

\* the outer MiddlewarePoller's p.Filter(&upd)
OFilter(u) ==
    CASE oFilterKind = "all"  -> TRUE
      [] oFilterKind = "none" -> FALSE
      [] oFilterKind = "odd"  -> u % 2 = 1

\* the stop channel LongPoller.Poll was called with
lpStop == IF wrapped THEN stopPoller ELSE stop

\* the stop channel the MiddlewarePoller next to the LongPoller was called with
mpStop == IF nested THEN oStopPoller ELSE stop

\* ---- AllowedUpdates ----
\* a slice value is [arr, len, cap]: arr indexes heap (0: no backing array);
\* every slice of this type starts at the first cell of its array
NilSlice == [arr |-> 0, len |-> 0, cap |-> 0]

\* the elements a slice value shows, read from heap h
ContentsIn(h, u) == IF u.len = 0 THEN <<>> ELSE SubSeq(h[u.arr], 1, u.len)

Names == {"foo", "bar"}
NameLists == UNION { [1..n -> Names] : n \in 1..MaxNames }

DefaultAllowedUpdates ==
    << "edited_message", "channel_post", "edited_channel_post", "inline_query",
       "chosen_inline_result", "callback_query", "shipping_query",
       "pre_checkout_query", "poll", "poll_answer" >>

\* capacity append allocates when newLen elements do not fit in oldCap
\* (gc runtime: double below 256 elements, then round up to an allocation
\* size class; for 16-byte strings every count up to 16 is a class, then
\* every even count up to 32)
GrowCap(newLen, oldCap) ==
    LET c == IF newLen > 2 * oldCap THEN newLen ELSE 2 * oldCap
    IN  IF c <= 16 THEN c ELSE c + (c % 2)

Pad(n) == [i \in 1..n |-> ""]

\* append(u, updates...): the heap after the call
AppendHeap(h, u, ns) ==
    IF u.len + Len(ns) <= u.cap
    THEN [h EXCEPT ![u.arr] = [i \in 1..Len(h[u.arr]) |->
                IF i > u.len /\ i <= u.len + Len(ns) THEN ns[i - u.len] ELSE h[u.arr][i]]]
    ELSE Append(h, ContentsIn(h, u) \o ns \o Pad(GrowCap(u.len + Len(ns), u.cap) - u.len - Len(ns)))

\* append(u, updates...): the slice value returned
AppendSlice(h, u, ns) ==
    IF u.len + Len(ns) <= u.cap
    THEN [arr |-> u.arr, len |-> u.len + Len(ns), cap |-> u.cap]
    ELSE [arr |-> Len(h) + 1, len |-> u.len + Len(ns),
          cap |-> GrowCap(u.len + Len(ns), u.cap)]

\* values the program starts from: a nil AllowedUpdates, DefaultAllowedUpdates()
\* and a one-element literal (a literal's capacity is its length)
InitAllowed ==
    /\ \E lit \in {<<>>, <<"foo">>, DefaultAllowedUpdates} :
         IF lit = <<>>
         THEN heap = <<>> /\ held = <<NilSlice>>
         ELSE heap = <<lit>> /\ held = <<[arr |-> 1, len |-> Len(lit), cap |-> Len(lit)]>>
    /\ lastAdd = [recv |-> 0, names |-> <<>>]
    /\ rendered = <<>>

InitAU ==
    /\ heap = <<>>
    /\ held = <<>>
    /\ lastAdd = [recv |-> 0, names |-> <<>>]
    /\ rendered = <<>>

\* nothing has run yet
InitRun ==
    /\ stop = FALSE
    /\ shouldWrireNextUpdate = 0
    /\ LastUpdateID = 0
    /\ offset = 0
    /\ updates = <<>>
    /\ idx = 0
    /\ route = "none"
    /\ lpc = "idle"
    /\ mpc = "idle"
    /\ upd = 0
    /\ middle = <<>>
    /\ stopPoller = FALSE
    /\ stopConfirm = FALSE
    /\ fetched = <<>>
    /\ lastBatch = <<>>
    /\ dispatched = <<>>
    /\ lpSent = <<>>
    /\ destOut = <<>>
    /\ nextOut = <<>>
    /\ err = FALSE
    /\ debugCalls = 0
    /\ callsAfterStop = 0
    /\ consumed = <<>>
    /\ opc = "idle"
    /\ oUpd = 0
    /\ oMiddle = <<>>
    /\ oStopPoller = FALSE
    /\ oStopConfirm = FALSE

InitPoller ==
    /\ wrapped \in BOOLEAN
    /\ filterKind \in (IF wrapped THEN FilterKinds ELSE {"all"})
    /\ Capacity \in (IF wrapped THEN (-1)..MaxCapacity ELSE {0})
    /\ nested = FALSE
    /\ oFilterKind = "all"
    /\ oCapacity = 0
    /\ InitRun

\* a MiddlewarePoller around a MiddlewarePoller around the LongPoller, both
\* with the same Capacity and each with a Filter that lets some updates pass
InitNestedPoller ==
    /\ wrapped = TRUE
    /\ nested = TRUE
    /\ filterKind \in {"all", "odd"}
    /\ oFilterKind \in {"all", "odd"}
    /\ Capacity \in 1..MaxCapacity
    /\ oCapacity = Capacity
    /\ InitRun

Init == InitPoller /\ InitAU

\* ---- environment ----
\* the caller closes the stop channel
CloseStop ==
    /\ ~stop
    /\ stop' = TRUE
    /\ UNCHANGED <<wrapped, filterKind, Capacity, shouldWrireNextUpdate, LastUpdateID,
                   offset, updates, idx, route, lpc, mpc, upd, middle, stopPoller,
                   stopConfirm, fetched, lastBatch, dispatched, lpSent, destOut, nextOut>>
    /\ UNCHANGED auVars
    /\ UNCHANGED outerVars
    /\ UNCHANGED <<err, debugCalls, callsAfterStop, consumed>>

\* a collaborator stores 0 or 1 into b.shouldWrireNextUpdate
SetFlag ==
    /\ shouldWrireNextUpdate' = 1 - shouldWrireNextUpdate
    /\ UNCHANGED <<wrapped, filterKind, Capacity, stop, LastUpdateID,
                   offset, updates, idx, route, lpc, mpc, upd, middle, stopPoller,
                   stopConfirm, fetched, lastBatch, dispatched, lpSent, destOut, nextOut>>
    /\ UNCHANGED auVars
    /\ UNCHANGED outerVars
    /\ UNCHANGED <<err, debugCalls, callsAfterStop, consumed>>

\* ---- LongPoller.Poll ----
\* the caller invokes LongPoller.Poll directly
LPStart ==
    /\ ~wrapped
    /\ lpc = "idle"
    /\ lpc' = "check"
    /\ UNCHANGED <<wrapped, filterKind, Capacity, stop, shouldWrireNextUpdate, LastUpdateID,
                   offset, updates, idx, route, mpc, upd, middle, stopPoller,
                   stopConfirm, fetched, lastBatch, dispatched, lpSent, destOut, nextOut>>
    /\ UNCHANGED auVars
    /\ UNCHANGED outerVars
    /\ UNCHANGED <<err, debugCalls, callsAfterStop, consumed>>

\* select { case <-stop: return; default: }
LPReturn ==
    /\ lpc = "check"
    /\ lpStop
    /\ lpc' = "done"
    /\ UNCHANGED <<wrapped, filterKind, Capacity, stop, shouldWrireNextUpdate, LastUpdateID,
                   offset, updates, idx, route, mpc, upd, middle, stopPoller,
                   stopConfirm, fetched, lastBatch, dispatched, lpSent, destOut, nextOut>>
    /\ UNCHANGED auVars
    /\ UNCHANGED outerVars
    /\ UNCHANGED <<err, debugCalls, callsAfterStop, consumed>>

\* argument of the getUpdates call
Offset == LastUpdateID + 1

\* select { ... default: }: stop is still open, the loop goes on to the call
LPDefault ==
    /\ lpc = "check"
    /\ ~lpStop
    /\ lpc' = "call"
    /\ UNCHANGED <<wrapped, filterKind, Capacity, stop, shouldWrireNextUpdate, LastUpdateID,
                   offset, updates, idx, route, mpc, upd, middle, stopPoller,
                   stopConfirm, fetched, lastBatch, dispatched, lpSent, destOut, nextOut>>
    /\ UNCHANGED auVars
    /\ UNCHANGED outerVars
    /\ UNCHANGED <<err, debugCalls, callsAfterStop, consumed>>

\* b.getUpdates(p.LastUpdateID+1, ...) is called
LPCall ==
    /\ lpc = "call"
    /\ offset' = Offset
    /\ lpc' = "fetch"
    /\ err' = FALSE
    /\ debugCalls' = 0
    /\ callsAfterStop' = IF lpStop THEN callsAfterStop + 1 ELSE callsAfterStop
    /\ UNCHANGED <<wrapped, filterKind, Capacity, stop, shouldWrireNextUpdate, LastUpdateID,
                   updates, idx, route, mpc, upd, middle, stopPoller,
                   stopConfirm, fetched, lastBatch, dispatched, lpSent, destOut, nextOut>>
    /\ UNCHANGED auVars
    /\ UNCHANGED outerVars
    /\ UNCHANGED consumed

\* position after a failed getUpdates: continue, back to the stop check
AfterErr_Return == "done"
AfterErr == "check"

\* b.debug calls made for this getUpdates call once the error branch has run
DebugCallsOnErr_None == debugCalls
DebugCallsOnErr == debugCalls + 1

\* getUpdates returns an error: b.debug(err); continue
LPFetchErr ==
    /\ lpc = "fetch"
    /\ lpc' = AfterErr
    /\ err' = TRUE
    /\ debugCalls' = DebugCallsOnErr
    /\ updates' = <<>>
    /\ UNCHANGED <<wrapped, filterKind, Capacity, stop, shouldWrireNextUpdate, LastUpdateID,
                   offset, idx, route, mpc, upd, middle, stopPoller,
                   stopConfirm, fetched, lastBatch, dispatched, lpSent, destOut, nextOut>>
    /\ UNCHANGED auVars
    /\ UNCHANGED outerVars
    /\ UNCHANGED <<callsAfterStop, consumed>>

\* getUpdates returns a batch; the range loop starts (an empty batch ends it at once)
LPFetchOk ==
    /\ lpc = "fetch"
    /\ \E batch \in getUpdates(offset, MaxLimit) :
         /\ updates' = batch
         /\ fetched' = fetched \o batch
         /\ lastBatch' = IF batch = <<>> THEN lastBatch ELSE batch
         /\ idx' = 1
         /\ lpc' = IF batch = <<>> THEN "check" ELSE "loop"
    /\ err' = FALSE
    /\ UNCHANGED <<wrapped, filterKind, Capacity, stop, shouldWrireNextUpdate, LastUpdateID,
                   offset, route, mpc, upd, middle, stopPoller,
                   stopConfirm, dispatched, lpSent, destOut, nextOut>>
    /\ UNCHANGED auVars
    /\ UNCHANGED outerVars
    /\ UNCHANGED <<debugCalls, callsAfterStop, consumed>>

\* channel chosen from the value atomic.LoadInt64 returned
RouteOf_Inverted(f) == IF f = 1 THEN "dest" ELSE "next"
RouteOf_PerBatch(f) == IF idx = 1 THEN (IF f = 1 THEN "next" ELSE "dest") ELSE route
RouteOf(f) == IF f = 1 THEN "next" ELSE "dest"

\* value stored into p.LastUpdateID for the update at position i
NewLastUpdateID_First(i) == updates[1]
NewLastUpdateID_Index(i) == i - 1
NewLastUpdateID(i) == updates[i]

\* loop body up to the send: p.LastUpdateID = update.ID; load the flag; pick the channel
LPDispatch ==
    /\ lpc = "loop"
    /\ LastUpdateID' = NewLastUpdateID(idx)
    /\ route' = RouteOf(shouldWrireNextUpdate)
    /\ dispatched' = Append(dispatched, [id |-> updates[idx], flag |-> shouldWrireNextUpdate])
    /\ lpc' = "send"
    /\ UNCHANGED <<wrapped, filterKind, Capacity, stop, shouldWrireNextUpdate,
                   offset, updates, idx, mpc, upd, middle, stopPoller,
                   stopConfirm, fetched, lastBatch, lpSent, destOut, nextOut>>
    /\ UNCHANGED auVars
    /\ UNCHANGED outerVars
    /\ UNCHANGED <<err, debugCalls, callsAfterStop, consumed>>

\* position after a completed send: next element of the range, or back to the stop check
AfterSend_Break == "check"
AfterSend_SkipCheck == IF idx = Len(updates) THEN "call" ELSE "loop"
AfterSend == IF idx = Len(updates) THEN "check" ELSE "loop"

\* b.nextUpdate <- update completes (a receiver takes it)
LPSendNext ==
    /\ lpc = "send"
    /\ route = "next"
    /\ nextOut' = Append(nextOut, updates[idx])
    /\ lpSent' = Append(lpSent, [id |-> updates[idx], ch |-> "next"])
    /\ idx' = idx + 1
    /\ lpc' = AfterSend
    /\ UNCHANGED <<wrapped, filterKind, Capacity, stop, shouldWrireNextUpdate, LastUpdateID,
                   offset, updates, route, mpc, upd, middle, stopPoller,
                   stopConfirm, fetched, lastBatch, dispatched, destOut>>
    /\ UNCHANGED auVars
    /\ UNCHANGED outerVars
    /\ UNCHANGED <<err, debugCalls, callsAfterStop, consumed>>

\* dest <- update completes; polled directly, dest is the caller's channel
LPSendDest ==
    /\ lpc = "send"
    /\ route = "dest"
    /\ ~wrapped
    /\ destOut' = Append(destOut, updates[idx])
    /\ lpSent' = Append(lpSent, [id |-> updates[idx], ch |-> "dest"])
    /\ idx' = idx + 1
    /\ lpc' = AfterSend
    /\ UNCHANGED <<wrapped, filterKind, Capacity, stop, shouldWrireNextUpdate, LastUpdateID,
                   offset, updates, route, mpc, upd, middle, stopPoller,
                   stopConfirm, fetched, lastBatch, dispatched, nextOut>>
    /\ UNCHANGED auVars
    /\ UNCHANGED outerVars
    /\ UNCHANGED <<err, debugCalls, callsAfterStop, consumed>>

\* dest <- update completes; under a MiddlewarePoller dest is middle, which
\* accepts while it holds fewer than Capacity updates
LPSendMiddle ==
    /\ lpc = "send"
    /\ route = "dest"
    /\ wrapped
    /\ Len(middle) < Capacity
    /\ middle' = Append(middle, updates[idx])
    /\ lpSent' = Append(lpSent, [id |-> updates[idx], ch |-> "dest"])
    /\ idx' = idx + 1
    /\ lpc' = AfterSend
    /\ UNCHANGED <<wrapped, filterKind, Capacity, stop, shouldWrireNextUpdate, LastUpdateID,
                   offset, updates, route, mpc, upd, stopPoller,
                   stopConfirm, fetched, lastBatch, dispatched, destOut, nextOut>>
    /\ UNCHANGED auVars
    /\ UNCHANGED outerVars
    /\ UNCHANGED <<err, debugCalls, callsAfterStop, consumed>>

\* ---- MiddlewarePoller.Poll ----
\* if p.Capacity < 1 { p.Capacity = 1 }
NormalCapacity_None(c) == c
NormalCapacity(c) == IF c < 1 THEN 1 ELSE c

\* entry: normalise Capacity, make the channels, start the goroutine
MPStart ==
    /\ wrapped
    /\ mpc = "idle"
    /\ nested => opc # "idle"
    /\ Capacity' = NormalCapacity(Capacity)
    /\ middle' = <<>>
    /\ stopPoller' = FALSE
    /\ stopConfirm' = FALSE
    /\ lpc' = "check"
    /\ mpc' = "select"
    /\ UNCHANGED <<wrapped, filterKind, stop, shouldWrireNextUpdate, LastUpdateID,
                   offset, updates, idx, route, upd,
                   fetched, lastBatch, dispatched, lpSent, destOut, nextOut>>
    /\ UNCHANGED auVars
    /\ UNCHANGED outerVars
    /\ UNCHANGED <<err, debugCalls, callsAfterStop, consumed>>

\* goroutine: p.Poller.Poll has returned; close(stopConfirm)
MPConfirm ==
    /\ wrapped
    /\ lpc = "done"
    /\ stopConfirm' = TRUE
    /\ lpc' = "exited"
    /\ UNCHANGED <<wrapped, filterKind, Capacity, stop, shouldWrireNextUpdate, LastUpdateID,
                   offset, updates, idx, route, mpc, upd, middle, stopPoller,
                   fetched, lastBatch, dispatched, lpSent, destOut, nextOut>>
    /\ UNCHANGED auVars
    /\ UNCHANGED outerVars
    /\ UNCHANGED <<err, debugCalls, callsAfterStop, consumed>>

\* position of the outer loop after close(stopPoller)
AfterStop_NoWait == "done"
AfterStop == "waitConfirm"

\* case <-stop: close(stopPoller)
MPStop ==
    /\ mpc = "select"
    /\ mpStop
    /\ stopPoller' = TRUE
    /\ mpc' = AfterStop
    /\ UNCHANGED <<wrapped, filterKind, Capacity, stop, shouldWrireNextUpdate, LastUpdateID,
                   offset, updates, idx, route, lpc, upd, middle,
                   stopConfirm, fetched, lastBatch, dispatched, lpSent, destOut, nextOut>>
    /\ UNCHANGED auVars
    /\ UNCHANGED outerVars
    /\ UNCHANGED <<err, debugCalls, callsAfterStop, consumed>>

\* <-stopConfirm; return
MPReturn ==
    /\ mpc = "waitConfirm"
    /\ stopConfirm
    /\ mpc' = "done"
    /\ UNCHANGED <<wrapped, filterKind, Capacity, stop, shouldWrireNextUpdate, LastUpdateID,
                   offset, updates, idx, route, lpc, upd, middle, stopPoller,
                   stopConfirm, fetched, lastBatch, dispatched, lpSent, destOut, nextOut>>
    /\ UNCHANGED auVars
    /\ UNCHANGED outerVars
    /\ UNCHANGED <<err, debugCalls, callsAfterStop, consumed>>

\* a receive from a buffered channel: the oldest buffered value, and what stays buffered
Dequeue_Last(q) == [val |-> q[Len(q)], rest |-> SubSeq(q, 1, Len(q) - 1)]
Dequeue(q) == [val |-> Head(q), rest |-> Tail(q)]

\* position after taking u from middle: the send to dest, or the next select
AfterRecv_Always(u) == "forward"
AfterRecv_Inverted(u) == IF Filter(u) THEN "select" ELSE "forward"
AfterRecv_ReturnOnReject(u) == IF Filter(u) THEN "forward" ELSE "done"
AfterRecv(u) == IF Filter(u) THEN "forward" ELSE "select"

\* case upd := <-middle: if p.Filter(&upd) { ... }
MPRecv ==
    /\ mpc = "select"
    /\ middle # <<>>
    /\ upd' = Dequeue(middle).val
    /\ middle' = Dequeue(middle).rest
    /\ mpc' = AfterRecv(Dequeue(middle).val)
    /\ consumed' = Append(consumed, [id |-> Dequeue(middle).val, pass |-> Filter(Dequeue(middle).val)])
    /\ UNCHANGED <<wrapped, filterKind, Capacity, stop, shouldWrireNextUpdate, LastUpdateID,
                   offset, updates, idx, route, lpc, stopPoller,
                   stopConfirm, fetched, lastBatch, dispatched, lpSent, destOut, nextOut>>
    /\ UNCHANGED auVars
    /\ UNCHANGED outerVars
    /\ UNCHANGED <<err, debugCalls, callsAfterStop>>

\* dest <- upd completes; dest is the caller's channel
MPForward ==
    /\ mpc = "forward"
    /\ ~nested
    /\ destOut' = Append(destOut, upd)
    /\ mpc' = "select"
    /\ UNCHANGED <<wrapped, filterKind, Capacity, stop, shouldWrireNextUpdate, LastUpdateID,
                   offset, updates, idx, route, lpc, upd, middle, stopPoller,
                   stopConfirm, fetched, lastBatch, dispatched, lpSent, nextOut>>
    /\ UNCHANGED auVars
    /\ UNCHANGED outerVars
    /\ UNCHANGED <<err, debugCalls, callsAfterStop, consumed>>

\* ---- the outer MiddlewarePoller.Poll of a nested pair ----
\* inner dest <- upd completes; dest is the outer poller's middle
MPForwardOuter ==
    /\ mpc = "forward"
    /\ nested
    /\ Len(oMiddle) < oCapacity
    /\ oMiddle' = Append(oMiddle, upd)
    /\ mpc' = "select"
    /\ UNCHANGED <<wrapped, filterKind, Capacity, stop, shouldWrireNextUpdate, LastUpdateID,
                   offset, updates, idx, route, lpc, upd, middle, stopPoller,
                   stopConfirm, fetched, lastBatch, dispatched, lpSent, destOut, nextOut>>
    /\ UNCHANGED auVars
    /\ UNCHANGED <<err, debugCalls, callsAfterStop, consumed>>
    /\ UNCHANGED <<nested, oFilterKind, oCapacity, opc, oUpd, oStopPoller, oStopConfirm>>

\* entry of the outer Poll: normalise Capacity, make the channels, start the goroutine
OStart ==
    /\ nested
    /\ opc = "idle"
    /\ oCapacity' = NormalCapacity(oCapacity)
    /\ oMiddle' = <<>>
    /\ oStopPoller' = FALSE
    /\ oStopConfirm' = FALSE
    /\ opc' = "select"
    /\ UNCHANGED <<wrapped, filterKind, Capacity, stop, shouldWrireNextUpdate, LastUpdateID,
                   offset, updates, idx, route, lpc, mpc, upd, middle, stopPoller,
                   stopConfirm, fetched, lastBatch, dispatched, lpSent, destOut, nextOut>>
    /\ UNCHANGED auVars
    /\ UNCHANGED <<err, debugCalls, callsAfterStop, consumed>>
    /\ UNCHANGED <<nested, oFilterKind, oUpd>>

\* outer goroutine: the inner MiddlewarePoller.Poll has returned; close(stopConfirm)
OConfirm ==
    /\ nested
    /\ mpc = "done"
    /\ oStopConfirm' = TRUE
    /\ mpc' = "exited"
    /\ UNCHANGED <<wrapped, filterKind, Capacity, stop, shouldWrireNextUpdate, LastUpdateID,
                   offset, updates, idx, route, lpc, upd, middle, stopPoller,
                   stopConfirm, fetched, lastBatch, dispatched, lpSent, destOut, nextOut>>
    /\ UNCHANGED auVars
    /\ UNCHANGED <<err, debugCalls, callsAfterStop, consumed>>
    /\ UNCHANGED <<nested, oFilterKind, oCapacity, opc, oUpd, oMiddle, oStopPoller>>

\* outer case <-stop: close(stopPoller)
OStop ==
    /\ opc = "select"
    /\ stop
    /\ oStopPoller' = TRUE
    /\ opc' = AfterStop
    /\ UNCHANGED <<wrapped, filterKind, Capacity, stop, shouldWrireNextUpdate, LastUpdateID,
                   offset, updates, idx, route, lpc, mpc, upd, middle, stopPoller,
                   stopConfirm, fetched, lastBatch, dispatched, lpSent, destOut, nextOut>>
    /\ UNCHANGED auVars
    /\ UNCHANGED <<err, debugCalls, callsAfterStop, consumed>>
    /\ UNCHANGED <<nested, oFilterKind, oCapacity, oUpd, oMiddle, oStopConfirm>>

\* outer <-stopConfirm; return
OReturn ==
    /\ opc = "waitConfirm"
    /\ oStopConfirm
    /\ opc' = "done"
    /\ UNCHANGED <<wrapped, filterKind, Capacity, stop, shouldWrireNextUpdate, LastUpdateID,
                   offset, updates, idx, route, lpc, mpc, upd, middle, stopPoller,
                   stopConfirm, fetched, lastBatch, dispatched, lpSent, destOut, nextOut>>
    /\ UNCHANGED auVars
    /\ UNCHANGED <<err, debugCalls, callsAfterStop, consumed>>
    /\ UNCHANGED <<nested, oFilterKind, oCapacity, oUpd, oMiddle, oStopPoller, oStopConfirm>>

\* outer case upd := <-middle: if p.Filter(&upd) { ... }
ORecv ==
    /\ opc = "select"
    /\ oMiddle # <<>>
    /\ oUpd' = Dequeue(oMiddle).val
    /\ oMiddle' = Dequeue(oMiddle).rest
    /\ opc' = IF OFilter(Dequeue(oMiddle).val) THEN "forward" ELSE "select"
    /\ UNCHANGED <<wrapped, filterKind, Capacity, stop, shouldWrireNextUpdate, LastUpdateID,
                   offset, updates, idx, route, lpc, mpc, upd, middle, stopPoller,
                   stopConfirm, fetched, lastBatch, dispatched, lpSent, destOut, nextOut>>
    /\ UNCHANGED auVars
    /\ UNCHANGED <<err, debugCalls, callsAfterStop, consumed>>
    /\ UNCHANGED <<nested, oFilterKind, oCapacity, oStopPoller, oStopConfirm>>

\* outer dest <- upd completes; dest is the caller's channel
OForward ==
    /\ opc = "forward"
    /\ destOut' = Append(destOut, oUpd)
    /\ opc' = "select"
    /\ UNCHANGED <<wrapped, filterKind, Capacity, stop, shouldWrireNextUpdate, LastUpdateID,
                   offset, updates, idx, route, lpc, mpc, upd, middle, stopPoller,
                   stopConfirm, fetched, lastBatch, dispatched, lpSent, nextOut>>
    /\ UNCHANGED auVars
    /\ UNCHANGED <<err, debugCalls, callsAfterStop, consumed>>
    /\ UNCHANGED <<nested, oFilterKind, oCapacity, oUpd, oMiddle, oStopPoller, oStopConfirm>>

\* ---- AllowedUpdates.String ----
\* A text is a sequence of pieces: a piece is one of the characters that
\* matter to the encoding (double quote, backslash, "<", the punctuation of
\* the array literal) or a run of characters json.Marshal copies unchanged.
TextNames == {"foo", "poll", "a\\b", "q\"q", "a<b"}

\* the characters of a name
Text(n) ==
    CASE n = "a\\b" -> <<"a", "\\", "b">>
      [] n = "q\"q" -> <<"q", "\"", "q">>
      [] n = "a<b"  -> <<"a", "<", "b">>
      [] OTHER      -> <<n>>

\* json.Marshal's string encoding of one piece: quote and backslash get a
\* backslash in front, "<" becomes \u003c
EscapePiece(c) ==
    CASE c = "\"" -> <<"\\", "\"">>
      [] c = "\\" -> <<"\\", "\\">>
      [] c = "<"  -> <<"\\", "u003c">>
      [] OTHER    -> <<c>>

RECURSIVE Flatten(_)
Flatten(ss) == IF ss = <<>> THEN <<>> ELSE Head(ss) \o Flatten(Tail(ss))

\* json.Marshal of a string
MarshalString(n) ==
    <<"\"">> \o Flatten([i \in DOMAIN Text(n) |-> EscapePiece(Text(n)[i])]) \o <<"\"">>

\* json.Marshal(u): null for a nil slice, else the elements between brackets,
\* separated by commas
Marshal(h, u) ==
    IF u.arr = 0 THEN <<"null">>
    ELSE LET es == ContentsIn(h, u)
         IN  <<"[">>
             \o Flatten([i \in DOMAIN es |->
                    (IF i > 1 THEN <<",">> ELSE <<>>) \o MarshalString(es[i])])
             \o <<"]">>

\* bytes.ReplaceAll(b, []byte("\\"), []byte(""))
ReplaceAll_Keep(b) == b
ReplaceAll(b) == SelectSeq(b, LAMBDA c : c # "\\")

\* u.String()
String(h, u) == ReplaceAll(Marshal(h, u))

\* the collections String is applied to: a nil one, literals of up to MaxLen
\* names, DefaultAllowedUpdates() and DefaultAllowedUpdates().Add("foo")
InitString ==
    /\ lastAdd = [recv |-> 0, names |-> <<>>]
    /\ rendered = <<>>
    /\ \/ heap = <<>> /\ held = <<NilSlice>>
       \/ \E n \in 0..MaxLen : \E lit \in [1..n -> TextNames] :
             /\ heap = <<lit>>
             /\ held = <<[arr |-> 1, len |-> n, cap |-> n]>>
       \/ /\ heap = <<DefaultAllowedUpdates>>
          /\ held = <<[arr |-> 1, len |-> 10, cap |-> 10]>>
       \/ LET d == [arr |-> 1, len |-> 10, cap |-> 10]
          IN  /\ heap = AppendHeap(<<DefaultAllowedUpdates>>, d, <<"foo">>)
              /\ held = <<AppendSlice(<<DefaultAllowedUpdates>>, d, <<"foo">>)>>

\* s := held[1].String()
AUString ==
    /\ rendered = <<>>
    /\ rendered' = String(heap, held[1])
    /\ UNCHANGED <<heap, held, lastAdd>>
    /\ UNCHANGED pollerVars

\* r := held[i].Add(ns...), and the program keeps r
AUAdd ==
    /\ Len(held) < MaxHeld
    /\ \E i \in DOMAIN held, ns \in NameLists :
         /\ heap' = AppendHeap(heap, held[i], ns)
         /\ held' = Append(held, AppendSlice(heap, held[i], ns))
         /\ lastAdd' = [recv |-> i, names |-> ns]
    /\ UNCHANGED rendered
    /\ UNCHANGED pollerVars

Next ==
    \/ CloseStop
    \/ SetFlag
    \/ LPStart
    \/ LPReturn
    \/ LPDefault
    \/ LPCall
    \/ LPFetchErr
    \/ LPFetchOk
    \/ LPDispatch
    \/ LPSendNext
    \/ LPSendDest
    \/ LPSendMiddle
    \/ MPStart
    \/ MPConfirm
    \/ MPStop
    \/ MPReturn
    \/ MPRecv
    \/ MPForward

Spec == Init /\ [][Next]_vars

\* the pollers' steps are scheduled fairly, every getUpdates call returns and
\* the receivers of dest and b.nextUpdate accept; the caller and the
\* collaborator are under no obligation
FairSpec ==
    /\ Spec
    /\ WF_vars(LPStart) /\ WF_vars(LPReturn) /\ WF_vars(LPDefault) /\ WF_vars(LPCall)
    /\ WF_vars(LPFetchErr \/ LPFetchOk)
    /\ WF_vars(LPDispatch) /\ WF_vars(LPSendNext) /\ WF_vars(LPSendDest)
    /\ WF_vars(LPSendMiddle)
    /\ WF_vars(MPStart) /\ WF_vars(MPConfirm) /\ WF_vars(MPStop)
    /\ WF_vars(MPReturn) /\ WF_vars(MPRecv) /\ WF_vars(MPForward)

\* the AllowedUpdates type on its own: no poller runs
InitAdd ==
    /\ InitPoller
    /\ ~wrapped
    /\ InitAllowed

NextAdd == AUAdd

SpecAdd == InitAdd /\ [][NextAdd]_vars

\* the nested pair: the caller polls the outer MiddlewarePoller
InitNested == InitNestedPoller /\ InitAU

NextNested ==
    \/ CloseStop
    \/ SetFlag
    \/ LPReturn
    \/ LPDefault
    \/ LPCall
    \/ LPFetchErr
    \/ LPFetchOk
    \/ LPDispatch
    \/ LPSendNext
    \/ LPSendMiddle
    \/ MPStart
    \/ MPConfirm
    \/ MPStop
    \/ MPReturn
    \/ MPRecv
    \/ MPForwardOuter
    \/ OStart
    \/ OConfirm
    \/ OStop
    \/ OReturn
    \/ ORecv
    \/ OForward

SpecNested == InitNested /\ [][NextNested]_vars

\* String on its own
InitRender ==
    /\ InitPoller
    /\ ~wrapped
    /\ InitString

NextRender == AUString

SpecRender == InitRender /\ [][NextRender]_vars

\* ---- properties ----
Range(s) == { s[i] : i \in DOMAIN s }
Ids(log) == [i \in DOMAIN log |-> log[i].id]
SentOn(c) == Ids(SelectSeq(lpSent, LAMBDA e : e.ch = c))
\* LongPoller.Poll is between batches (or has not started, or has returned)
BetweenBatches == lpc \in {"idle", "check", "call", "fetch", "done", "exited"}
\* what a LongPoller polled directly hands to dest for the updates dispatched so far
DirectDest == Ids(SelectSeq(dispatched, LAMBDA d : d.flag # 1))

\* C1: the updates LongPoller.Poll has sent, on dest and b.nextUpdate together,
\* are the fetched updates in fetch order, each once and on one channel; between
\* batches nothing fetched is unsent.
C1_DeliveredExactlyOnceInOrder ==
    /\ IsPrefix(Ids(lpSent), fetched)
    /\ BetweenBatches => Ids(lpSent) = fetched
    /\ SentOn("next") = nextOut
    /\ ~wrapped => SentOn("dest") = destOut
    /\ wrapped => IsSuffix(middle, SentOn("dest"))
    /\ Len(SentOn("next")) + Len(SentOn("dest")) = Len(lpSent)

C1_Witness ==
    /\ lpc = "done"
    /\ Len(fetched) >= 2
    /\ nextOut # <<>>
    /\ SentOn("dest") # <<>>

\* C2: when MiddlewarePoller.Poll has returned, the wrapped Poll has returned
\* and stopConfirm is closed, and from then on nothing is written to middle.
C2_ReturnsAfterInner ==
    /\ [](mpc = "done" => lpc = "exited" /\ stopConfirm)
    /\ [][mpc = "done" => middle' = middle /\ lpSent' = lpSent]_vars

C2_Witness ==
    /\ mpc = "done"
    /\ stopConfirm
    /\ lpSent # <<>>

\* C3: once stop is closed, MiddlewarePoller.Poll eventually returns.
C3_StopLeadsToReturn == (wrapped /\ stop) ~> (mpc = "done")

\* C4: every update goes to b.nextUpdate exactly when the flag was 1 at the
\* moment that update was dispatched, whatever happened to the flag for the
\* other updates of its batch.
C4_FlagReadPerUpdate ==
    /\ Len(lpSent) <= Len(dispatched)
    /\ \A i \in DOMAIN lpSent :
         /\ lpSent[i].id = dispatched[i].id
         /\ lpSent[i].ch = "next" <=> dispatched[i].flag = 1
    /\ lpc = "send" => (route = "next" <=> dispatched[Len(dispatched)].flag = 1)

C4_Witness ==
    /\ fetched = <<1, 2, 3>>
    /\ lastBatch = <<1, 2, 3>>
    /\ lpSent = << [id |-> 1, ch |-> "dest"], [id |-> 2, ch |-> "next"], [id |-> 3, ch |-> "dest"] >>

\* C5: after a non-empty batch has been processed LastUpdateID is the largest
\* id of that batch, and the getUpdates call that follows uses that id plus 1.
C5_NextOffsetAfterBatch ==
    /\ BetweenBatches /\ lastBatch # <<>> => LastUpdateID = SeqMax(lastBatch)
    /\ lpc = "fetch" /\ lastBatch # <<>> => offset = SeqMax(lastBatch) + 1

C5_Witness ==
    /\ lpc = "fetch"
    /\ lastBatch = <<1, 2>>
    /\ LastUpdateID = 2
    /\ offset = 3

\* C6: when MiddlewarePoller.Poll has returned, every fetched update with an id
\* up to LastUpdateID that passes Filter has reached dest or b.nextUpdate.
C6_NoUpdateLost ==
    (wrapped /\ mpc = "done") =>
        \A i \in DOMAIN fetched :
            (fetched[i] <= LastUpdateID /\ Filter(fetched[i]))
                => fetched[i] \in Range(destOut) \cup Range(nextOut)

\* C7: with a Filter that accepts everything, what dest has received when
\* MiddlewarePoller.Poll returns is what the LongPoller polled directly hands
\* to dest for the same fetch results and flag values.
C7_AcceptAllIsTransparent ==
    (wrapped /\ filterKind = "all" /\ mpc = "done") => destOut = DirectDest

\* C8: with a Filter that rejects everything dest receives nothing, and until
\* stop is closed the wrapped LongPoller is not stuck: again and again it is in
\* a getUpdates call with LastUpdateID at the id of the last fetched update (so
\* no relay send blocks forever and every fetched id is reached).
C8_RejectAllStillAdvances ==
    /\ []((wrapped /\ filterKind = "none") => destOut = <<>>)
    /\ []<>((wrapped /\ filterKind = "none") =>
               \/ stop
               \/ /\ lpc = "fetch"
                  /\ fetched # <<>> => LastUpdateID = SeqMax(fetched))

C8_Witness ==
    /\ wrapped /\ filterKind = "none" /\ ~stop
    /\ Len(fetched) >= 2
    /\ LastUpdateID = fetched[Len(fetched)]
    /\ lpc = "fetch"
    /\ middle = <<>>
    /\ destOut = <<>>

\* C9: LongPoller.Poll has returned only if its stop channel is closed, and
\* MiddlewarePoller.Poll has left its loop only if its stop channel is closed.
C9_ReturnOnlyOnStop ==
    /\ lpc \in {"done", "exited"} => lpStop
    /\ mpc \in {"waitConfirm", "done"} => stop
    /\ (wrapped /\ lpStop) => stop

C9_Witness ==
    \/ ~wrapped /\ lpc = "done" /\ stop /\ fetched # <<>>
    \/ wrapped /\ mpc = "done" /\ stop /\ filterKind = "none" /\ fetched # <<>>

\* C10: an Add call returns the receiver's elements followed by the names, and
\* leaves the elements of every collection the program already holds (the
\* receiver and the results of earlier Add calls) as they were.
C10_AddValueSemantics ==
    [][ held' # held =>
          /\ ContentsIn(heap', held'[Len(held')])
                = ContentsIn(heap, held[lastAdd'.recv]) \o lastAdd'.names
          /\ \A i \in DOMAIN held : ContentsIn(heap', held[i]) = ContentsIn(heap, held[i])
      ]_vars

\* the array literal that lists the names es verbatim, each between double quotes
ArrayLiteral(es) ==
    <<"[">>
    \o Flatten([i \in DOMAIN es |->
           (IF i > 1 THEN <<",">> ELSE <<>>) \o <<"\"">> \o Text(es[i]) \o <<"\"">>])
    \o <<"]">>

DefaultsThenFoo ==
    << "[", "\"", "edited_message", "\"", ",", "\"", "channel_post", "\"", ",", "\"",
       "edited_channel_post", "\"", ",", "\"", "inline_query", "\"", ",", "\"",
       "chosen_inline_result", "\"", ",", "\"", "callback_query", "\"", ",", "\"",
       "shipping_query", "\"", ",", "\"", "pre_checkout_query", "\"", ",", "\"",
       "poll", "\"", ",", "\"", "poll_answer", "\"", ",", "\"", "foo", "\"", "]" >>

\* the name has no backslash and no character json.Marshal writes as \u....
Verbatim(n) == \A i \in DOMAIN Text(n) : Text(n)[i] \notin {"\\", "<"}

\* C11 as stated: String returns the array literal of the elements, in order
\* and each between double quotes, and the text has no backslash.
C11_StringIsArrayLiteral ==
    rendered # <<>> =>
        /\ rendered = ArrayLiteral(ContentsIn(heap, held[1]))
        /\ "\\" \notin Range(rendered)

\* C11 amended: the text String returns never has a backslash; for a non-nil
\* collection whose names have no backslash and no character json.Marshal
\* writes as a \u escape it is the array literal of the elements, in order and
\* each between double quotes; a nil collection gives null; and
\* DefaultAllowedUpdates().Add("foo") gives the ten default names, then foo.
C11_StringOfPlainNames ==
    rendered # <<>> =>
        LET es == ContentsIn(heap, held[1])
        IN  /\ "\\" \notin Range(rendered)
            /\ (held[1].arr # 0 /\ \A i \in DOMAIN es : Verbatim(es[i]))
                   => rendered = ArrayLiteral(es)
            /\ held[1].arr = 0 => rendered = <<"null">>
            /\ es = DefaultAllowedUpdates \o <<"foo">> => rendered = DefaultsThenFoo

C11_Witness ==
    /\ ContentsIn(heap, held[1]) = DefaultAllowedUpdates \o <<"foo">>
    /\ held[1].cap = 20
    /\ rendered = DefaultsThenFoo

\* the update MiddlewarePoller.Poll is sending to dest, if any
Pending == IF mpc = "forward" THEN <<upd>> ELSE <<>>
Passed == Ids(SelectSeq(consumed, LAMBDA c : c.pass))
Rejected == Ids(SelectSeq(consumed, LAMBDA c : ~c.pass))
\* ids a receiver has taken from the channel LongPoller.Poll sent them on
Accepted == Range(nextOut) \cup (IF wrapped THEN Range(Ids(consumed)) ELSE Range(destOut))

\* C12: LastUpdateID never decreases; it changes only in the range loop over a
\* successfully fetched batch, where it takes the id of the update being
\* dispatched, and after the batch it is the largest id of that batch.
C12_LastUpdateIDMonotonic ==
    /\ [][LastUpdateID' >= LastUpdateID]_vars
    /\ [][LastUpdateID' # LastUpdateID =>
            /\ lpc = "loop" /\ ~err
            /\ LastUpdateID' = updates[idx]
            /\ updates[idx] \in Range(lastBatch)]_vars
    /\ []((BetweenBatches /\ lastBatch # <<>>) => LastUpdateID = SeqMax(lastBatch))

C12_Witness ==
    /\ fetched = <<1, 2, 3>>
    /\ lastBatch = <<2, 3>>
    /\ lpc = "check"
    /\ LastUpdateID = 3

\* C13: a getUpdates error makes one b.debug call, sends nothing, leaves
\* LastUpdateID as it was and leads back to the stop check; a call issued
\* after it uses the offset of the failed call.
C13_ErrorRetriesSameOffset ==
    /\ [][(lpc = "fetch" /\ err') =>
            /\ debugCalls' = 1
            /\ lpc' = "check"
            /\ LastUpdateID' = LastUpdateID
            /\ lpSent' = lpSent /\ dispatched' = dispatched
            /\ destOut' = destOut /\ nextOut' = nextOut /\ middle' = middle]_vars
    /\ [][(err /\ lpc' = "fetch") => offset' = offset]_vars
    /\ [](err => debugCalls = 1 /\ lpc \in {"check", "call", "done", "exited"})

C13_Witness ==
    /\ err
    /\ debugCalls = 1
    /\ lpc = "call"
    /\ offset = 3
    /\ LastUpdateID = 2

\* LongPoller.Poll is at a send no receiver will ever take: middle is full and
\* MiddlewarePoller.Poll has left its loop
NoReceiver ==
    /\ wrapped
    /\ lpc = "send" /\ route = "dest"
    /\ Len(middle) >= Capacity
    /\ mpc \in {"waitConfirm", "done"}

C15_FilterDecidesForwarding ==
    /\ wrapped => destOut \o Pending = Passed
    /\ \A i \in DOMAIN consumed : consumed[i].pass = Filter(consumed[i].id)
    /\ wrapped => Range(Rejected) \cap Range(destOut \o Pending) = {}

C15_Witness ==
    /\ wrapped /\ filterKind = "odd"
    /\ Ids(consumed) = <<1, 2, 3>>
    /\ destOut = <<1, 3>>

\* C17 as stated: no getUpdates call is in flight while an update fetched
\* earlier has not been taken by a receiver.
C17_FetchOnlyAfterReceiversAccept ==
    lpc = "fetch" => Range(fetched) \subseteq Accepted

\* C17 amended: a send completes when its channel takes the update (a receiver
\* for dest polled directly and for b.nextUpdate, a free slot of middle under a
\* MiddlewarePoller), and no getUpdates call is issued before every update
\* fetched earlier has been taken by its channel; polled directly, that means
\* taken by a receiver.
C17_FetchOnlyAfterChannelsTake ==
    /\ lpc \in {"call", "fetch"} => Ids(lpSent) = fetched
    /\ (lpc \in {"call", "fetch"} /\ ~wrapped) => Range(fetched) \subseteq Accepted
    /\ wrapped => Range(fetched) \subseteq
                     (Accepted \cup Range(middle) \cup
                        (IF lpc \in {"loop", "send"} THEN Range(updates) ELSE {}))

C17_Witness ==
    /\ wrapped
    /\ lpc = "fetch"
    /\ Len(middle) = 2
    /\ consumed = <<>>

\* C18: from its entry on, MiddlewarePoller.Poll has Capacity at least 1: the
\* entry replaces a value below 1 by 1 and keeps any other, nothing changes it
\* later, and middle never holds more than Capacity updates.
C18_CapacityNormalised ==
    /\ [][(mpc = "idle" /\ mpc' # "idle") =>
            Capacity' = (IF Capacity < 1 THEN 1 ELSE Capacity)]_vars
    /\ [][mpc # "idle" => Capacity' = Capacity]_vars
    /\ [](mpc # "idle" => Capacity >= 1)
    /\ [](Len(middle) <= Capacity \/ middle = <<>>)

C18_Witness ==
    /\ wrapped
    /\ Capacity = 2
    /\ Len(middle) = 2
    /\ lpc = "send"

\* C19: under a MiddlewarePoller an update dispatched with the flag at 1 is
\* never in middle, never taken by the outer loop and never sent to dest, and
\* every update that is or was in middle was dispatched with the flag at 0.
C19_HandOffBypassesMiddleware ==
    wrapped =>
        /\ \A i \in DOMAIN dispatched :
             dispatched[i].flag = 1 =>
                 dispatched[i].id \notin
                     (Range(middle) \cup Range(Ids(consumed)) \cup Range(destOut \o Pending))
        /\ \A id \in Range(middle) \cup Range(Ids(consumed)) :
             \E i \in DOMAIN dispatched : dispatched[i].id = id /\ dispatched[i].flag = 0
        /\ Range(nextOut) \cap Range(SentOn("dest")) = {}

C19_Witness ==
    /\ wrapped /\ filterKind = "all"
    /\ nextOut = <<2>>
    /\ destOut = <<1, 3>>

\* ids fetched that were neither received on dest or b.nextUpdate nor rejected
Unsettled == Range(fetched) \ (Range(destOut) \cup Range(nextOut) \cup Range(Rejected))

\* C20: as long as stop stays open, every update fetched under a
\* MiddlewarePoller is eventually received on dest or b.nextUpdate, or taken
\* from middle and rejected by Filter: again and again no fetched update is
\* left unsettled.
C20_EveryUpdateSettled ==
    []<>(wrapped => (stop \/ Unsettled = {}))

C20_Witness ==
    /\ wrapped /\ ~stop /\ filterKind = "odd"
    /\ Len(fetched) = 3
    /\ Range(fetched) = Range(destOut) \cup Range(nextOut) \cup Range(Rejected)
    /\ nextOut # <<>>
    /\ Capacity = 1

RECURSIVE IsSubseq(_, _)
IsSubseq(s, t) ==
    IF s = <<>> THEN TRUE
    ELSE IF t = <<>> THEN FALSE
    ELSE IF Head(s) = Head(t) THEN IsSubseq(Tail(s), Tail(t))
    ELSE IsSubseq(s, Tail(t))

\* the update the outer MiddlewarePoller.Poll is sending to dest, if any
OPending == IF opc = "forward" THEN <<oUpd>> ELSE <<>>

\* C16: through two nested MiddlewarePollers, what the caller's dest has
\* received (and the update about to be sent to it) is a subsequence of what the
\* LongPoller sent into the inner relay channel, and so of the fetched updates:
\* no two updates arrive in the opposite order.
C16_NestedOrderPreserved ==
    nested =>
        /\ IsSubseq(destOut \o OPending, SentOn("dest"))
        /\ IsSubseq(destOut \o OPending \o oMiddle \o Pending \o middle, SentOn("dest"))
        /\ IsSubseq(destOut, fetched)

C16_Witness ==
    /\ nested
    /\ filterKind = "all" /\ oFilterKind = "odd"
    /\ Capacity >= 2 /\ oCapacity >= 2
    /\ SentOn("dest") = <<1, 2, 3>>
    /\ destOut = <<1, 3>>

TypeOK ==
    /\ lpc \in {"idle", "check", "call", "fetch", "loop", "send", "done", "exited"}
    /\ mpc \in {"idle", "select", "forward", "waitConfirm", "done", "exited"}
    /\ opc \in {"idle", "select", "forward", "waitConfirm", "done"}
    /\ Len(middle) <= MaxCapacity
====
